---- MODULE Spec2Model ----
(***************************************************************************)
(* Control-channel protocol engine of the Tello client                     *)
(* (src/advanced/src/tello.rs): the TelloGram codec, the command receive   *)
(* loop, the connect handshake, the keepalive (video request) loop and the *)
(* shutdown sequence of main.                                              *)
(*                                                                         *)
(* Bytes are the integers 0..255; a buffer is a sequence of bytes whose    *)
(* element i+1 is the byte at offset i.  Multi-byte struct fields are laid *)
(* out little-endian, as on the hosts the program is built for.            *)
(***************************************************************************)
EXTENDS Integers, Sequences, FiniteSets, TLC

\* ------------------------------------------------------------------------
\* Bit arithmetic on naturals
\* ------------------------------------------------------------------------

RECURSIVE Xor(_, _)
Xor(a, b) ==
    IF a = 0 THEN b
    ELSE IF b = 0 THEN a
    ELSE (((a % 2) + (b % 2)) % 2) + 2 * Xor(a \div 2, b \div 2)

RECURSIVE BitAnd(_, _)
BitAnd(a, b) ==
    IF a = 0 \/ b = 0 THEN 0
    ELSE ((a % 2) * (b % 2)) + 2 * BitAnd(a \div 2, b \div 2)

BitOr(a, b) == a + b - BitAnd(a, b)

Byte == 0..255

\* ------------------------------------------------------------------------
\* mod crc: the two table-driven checksums of the vehicle firmware
\* ------------------------------------------------------------------------

RECURSIVE ReflectedShift(_, _, _)
\* n rounds of the reflected shift register with polynomial poly
ReflectedShift(x, poly, n) ==
    IF n = 0 THEN x
    ELSE ReflectedShift(IF x % 2 = 1 THEN Xor(x \div 2, poly) ELSE x \div 2,
                        poly, n - 1)

CRC8_POLY == 140
CRC8_INIT == 119
CRC16_POLY == 33800
CRC16_INIT == 13970

CRC8_TABLE == [i \in Byte |-> ReflectedShift(i, CRC8_POLY, 8)]

CRC16_TABLE == [i \in Byte |-> ReflectedShift(i, CRC16_POLY, 8)]

\* one table step per byte: crc = TABLE[(crc ^ byte) & 0xff]
Crc8Step(crc, byte) == CRC8_TABLE[Xor(crc, byte)]

\* one table step per byte: crc = TABLE[(crc ^ byte) & 0xff] ^ (crc >> 8)
Crc16Step(crc, byte) == Xor(CRC16_TABLE[Xor(crc % 256, byte)], crc \div 256)

RECURSIVE Crc8Range(_, _, _, _)
\* the bytes lo..hi fed to the register in order, the range halved to keep
\* the evaluation shallow
Crc8Range(crc, bytes, lo, hi) ==
    IF lo > hi THEN crc
    ELSE IF lo = hi THEN Crc8Step(crc, bytes[lo])
    ELSE LET mid == (lo + hi) \div 2
             left == Crc8Range(crc, bytes, lo, mid)
         IN  IF left < 0 THEN left ELSE Crc8Range(left, bytes, mid + 1, hi)

calculate_crc8(bytes) == Crc8Range(CRC8_INIT, bytes, 1, Len(bytes))

RECURSIVE Crc16Range(_, _, _, _)
Crc16Range(crc, bytes, lo, hi) ==
    IF lo > hi THEN crc
    ELSE IF lo = hi THEN Crc16Step(crc, bytes[lo])
    ELSE LET mid == (lo + hi) \div 2
             left == Crc16Range(crc, bytes, lo, mid)
         IN  IF left < 0 THEN left ELSE Crc16Range(left, bytes, mid + 1, hi)

calculate_crc16(bytes) == Crc16Range(CRC16_INIT, bytes, 1, Len(bytes))

\* ------------------------------------------------------------------------
\* TelloGram: construction
\* ------------------------------------------------------------------------

GRAM_SIZE == 11

Zeros(n) == [i \in 1..n |-> 0]

\* buffer[off] = v, offsets from 0
Poke(buf, off, v) == [buf EXCEPT ![off + 1] = v]

\* a u16 struct field written at offset off (little-endian)
Poke16(buf, off, v) == Poke(Poke(buf, off, v % 256), off + 1, (v \div 256) % 256)

\* for i in 0..payload.len() { buffer[i + 9] = payload[i] }
CopyPayload(buf, payload) ==
    [i \in 1..Len(buf) |->
        IF i - 1 >= 9 /\ i - 1 < 9 + Len(payload) THEN payload[i - 9] ELSE buf[i]]

\* the checksum written in the order of its big-endian value: high byte first
WriteCrc16BigEndian(buf, packet_size, crc16) ==
    Poke(Poke(buf, packet_size - 2, crc16 \div 256), packet_size - 1, crc16 % 256)

\* buffer[packet_size - 2] = crc16_buf[1]; buffer[packet_size - 1] = crc16_buf[0]
\* where crc16_buf = transmute(crc16.to_be()): [0] is the high byte, [1] the low
WriteCrc16(buf, packet_size, crc16) ==
    LET crc16_buf == <<crc16 \div 256, crc16 % 256>>
    IN  Poke(Poke(buf, packet_size - 2, crc16_buf[2]), packet_size - 1, crc16_buf[1])

\* the 16-bit checksum taken over all bytes but the last three
construct_package_crc16_short(packet_type, command, seq, payload) ==
    LET packet_size == GRAM_SIZE + Len(payload)
        b0 == Zeros(packet_size)
        b1 == Poke(b0, 0, 204)
        b2 == Poke16(b1, 1, (packet_size * 8) % 65536)
        b3 == Poke(b2, 3, calculate_crc8(SubSeq(b2, 1, 3)))
        b4 == Poke(b3, 4, BitOr(b3[5], 64))
        b5 == Poke(b4, 4, BitOr(b4[5], BitAnd((packet_type * 8) % 256, 56)))
        b6 == Poke16(b5, 5, command)
        b7 == Poke16(b6, 7, seq)
        b8 == CopyPayload(b7, payload)
    IN  WriteCrc16(b8, packet_size, calculate_crc16(SubSeq(b8, 1, packet_size - 3)))

\* the header checksum taken before the size field is written
construct_package_crc8_first(packet_type, command, seq, payload) ==
    LET packet_size == GRAM_SIZE + Len(payload)
        b0 == Zeros(packet_size)
        b1 == Poke(b0, 0, 204)
        b2 == Poke(b1, 3, calculate_crc8(SubSeq(b1, 1, 3)))
        b3 == Poke16(b2, 1, (packet_size * 8) % 65536)
        b4 == Poke(b3, 4, BitOr(b3[5], 64))
        b5 == Poke(b4, 4, BitOr(b4[5], BitAnd((packet_type * 8) % 256, 56)))
        b6 == Poke16(b5, 5, command)
        b7 == Poke16(b6, 7, seq)
        b8 == CopyPayload(b7, payload)
    IN  WriteCrc16(b8, packet_size, calculate_crc16(SubSeq(b8, 1, packet_size - 2)))

construct_package(packet_type, command, seq, payload) ==
    LET packet_size == GRAM_SIZE + Len(payload)
        b0 == Zeros(packet_size)
        \* gram.m_header = 0xcc
        b1 == Poke(b0, 0, 204)
        \* gram.m_size = (packet_size << 3) as u16
        b2 == Poke16(b1, 1, (packet_size * 8) % 65536)
        \* gram.m_crc8 = crc::calculate_crc8(&buffer[..3])
        b3 == Poke(b2, 3, calculate_crc8(SubSeq(b2, 1, 3)))
        \* gram.m_discriminator |= 0x40
        b4 == Poke(b3, 4, BitOr(b3[5], 64))
        \* gram.m_discriminator |= (packet_type << 3) & 0x38
        b5 == Poke(b4, 4, BitOr(b4[5], BitAnd((packet_type * 8) % 256, 56)))
        b6 == Poke16(b5, 5, command)
        b7 == Poke16(b6, 7, seq)
        b8 == CopyPayload(b7, payload)
    IN  WriteCrc16(b8, packet_size, calculate_crc16(SubSeq(b8, 1, packet_size - 2)))

\* ------------------------------------------------------------------------
\* TelloGram: the accessors.  A gram is a pointer into an allocation: the
\* bytes stored in it and the allocation's length (cap).  Bytes of the
\* allocation past the stored ones are the zeros it was created with.
\* ------------------------------------------------------------------------

Mem(bytes, cap) == [bytes |-> bytes, cap |-> cap]

ByteAt(gram, off) == IF off < Len(gram.bytes) THEN gram.bytes[off + 1] ELSE 0

\* slice::from_raw_parts(gram_start.offset(from), n), inside the allocation
Slice(gram, from, n) == [i \in 1..n |-> ByteAt(gram, from + i - 1)]

header(gram) == ByteAt(gram, 0)

m_size(gram) == ByteAt(gram, 1) + 256 * ByteAt(gram, 2)

\* the size field returned as it is stored
size_unshifted(gram) == m_size(gram)

size(gram) == m_size(gram) \div 8

crc8(gram) == ByteAt(gram, 3)

m_discriminator(gram) == ByteAt(gram, 4)

\* the direction decided by bit 6 before bit 7
packet_direction_bit6_first(gram) ==
    IF BitAnd(m_discriminator(gram), 64) # 0 THEN "ToDrone"
    ELSE IF BitAnd(m_discriminator(gram), 128) # 0 THEN "FromDrone"
    ELSE "Unknown"

packet_direction(gram) ==
    IF BitAnd(m_discriminator(gram), 128) # 0 THEN "FromDrone"
    ELSE IF BitAnd(m_discriminator(gram), 64) # 0 THEN "ToDrone"
    ELSE "Unknown"

packet_type(gram) == BitAnd(m_discriminator(gram) \div 8, 7)

packet_subtype(gram) == BitAnd(m_discriminator(gram), 7)

id(gram) == ByteAt(gram, 5) + 256 * ByteAt(gram, 6)

sequence(gram) == ByteAt(gram, 7) + 256 * ByteAt(gram, 8)

\* payload(), for a gram whose size() bytes lie inside the allocation
payload(gram) == Slice(gram, 9, size(gram) - GRAM_SIZE)

\* the checksum field read with its first byte as the high byte
crc16_high_first(gram) ==
    LET crc16_offset == size(gram) - 2
    IN  ByteAt(gram, crc16_offset) * 256 + ByteAt(gram, crc16_offset + 1)

\* crc16(), for a gram whose size() bytes lie inside the allocation
crc16(gram) ==
    LET crc16_offset == size(gram) - 2
    IN  ByteAt(gram, crc16_offset + 1) * 256 + ByteAt(gram, crc16_offset)

Crc8Matches(gram) == calculate_crc8(Slice(gram, 0, 3)) = crc8(gram)

Crc16Matches(gram) == calculate_crc16(Slice(gram, 0, size(gram) - 2)) = crc16(gram)

\* a validation that stops at the header checksum
is_valid_header_only(gram, overflow_checks) ==
    IF size(gram) < 2 /\ overflow_checks THEN {"panic"}
    ELSE IF Crc8Matches(gram) THEN {"true"} ELSE {"false"}

\* is_valid(): the set of ways the call can end.  "true" and "false" are its
\* results.  With size() < 2 the usize subtraction size() - 2 overflows: a
\* build with overflow checks panics; one without wraps, and the checksum
\* loop then runs over a slice that covers the address space, which is only
\* reached when the header checksum matches (&& evaluates it first).  With
\* size() beyond the allocation the 16-bit checksum and its field are read
\* from whatever memory follows the allocation.
is_valid(gram, overflow_checks) ==
    IF size(gram) < 2
    THEN IF overflow_checks THEN {"panic"}
         ELSE IF Crc8Matches(gram) THEN {"crash"} ELSE {"false"}
    ELSE IF ~Crc8Matches(gram) THEN {"false"}
    ELSE IF size(gram) > gram.cap THEN {"true", "false", "crash"}
    ELSE IF Crc16Matches(gram) THEN {"true"} ELSE {"false"}

\* the number of leading bytes of the allocation is_valid() reads (or, past
\* the allocation, tries to read)
is_valid_reads(gram) ==
    IF size(gram) >= 2 /\ Crc8Matches(gram) /\ size(gram) > 4 THEN size(gram) ELSE 4

\* a decode that takes the battery level from the byte before offset 12
FlightData_battery_at_11(bytes) ==
    [height |-> BitOr(bytes[1], bytes[2] * 256),
     battery_percentage |-> bytes[12],
     camera_state |-> bytes[21]]

\* FlightData::from(bytes), for bytes.len() == 24
FlightData(bytes) ==
    [height |-> BitOr(bytes[1], bytes[2] * 256),
     battery_percentage |-> bytes[13],
     camera_state |-> bytes[21]]

\* ------------------------------------------------------------------------
\* TelloConnectRequest and the handshake texts
\* ------------------------------------------------------------------------

VIDEO_PORT == 8040

\* "conn_req"
CONN_REQ_CMD == <<99, 111, 110, 110, 95, 114, 101, 113>>

COLON == 58

\* "conn_ack:"
CONN_ACK == <<99, 111, 110, 110, 95, 97, 99, 107, 58>>

\* the port written high byte first
as_bytes_big_endian(video_port) ==
    CONN_REQ_CMD \o <<COLON>> \o <<video_port \div 256>> \o <<BitAnd(video_port, 255)>>

as_bytes(video_port) ==
    CONN_REQ_CMD \o <<COLON>> \o <<BitAnd(video_port, 255)>> \o <<video_port \div 256>>

\* ------------------------------------------------------------------------
\* State
\* ------------------------------------------------------------------------

VARIABLES
    overflow_checks, \* the build: TRUE when integer overflow checks are compiled in
    process,         \* "running", "exited" (main returned or panicked), "aborted"
    is_running,      \* the shared AtomicBool
    now,             \* seconds since main started
    main_pc,         \* main's position
    cmd_pc,          \* cmd_listen_thread: "unborn", "check", "recv", "done", "panicked"
    cmd_deadline,    \* when the pending recv times out
    buffer,          \* cmd_listen_thread's buffer: the bytes written so far (zeros follow)
    received,        \* datagrams delivered on the command socket so far
    last_dgram,      \* the bytes of the datagram the last recv returned
    cmd_event,       \* what the last iteration of cmd_listen_thread did
    cmd_reads,       \* leading bytes of buffer the last validation read
    ping_pc,         \* video_package_ping_thread: "unborn", "check", "sleep", "done", "panicked"
    ping_wake,       \* when the pending sleep ends
    sent,            \* the datagrams sent on the command socket, in order
    acked_at,        \* Len(sent) when "conn_ack:" was first read, or -1
    stopped_at,      \* now when is_running was stored false, or -1
    stopped_sent,    \* Len(sent) when is_running was stored false, or -1
    vid_pc,          \* video_listen_thread: "unborn", "check", "recv", "done", "panicked"
    vid_received,    \* datagrams delivered on the video socket so far
    vid_dgram,       \* the bytes of the datagram the last video recv returned
    vid_pushed,      \* the databuf last handed to appsource.push_buffer, if any
    samples,         \* decoded samples waiting in the appsink
    proc_pc,         \* video_processor_thread: "unborn", "check", "pull", "done", "panicked"
    chan,            \* the frames in the channel, oldest first, by number
    frames_sent,     \* frames video_sender.send has accepted so far
    player_got,      \* the frames the player's try_recv returned, in order
    codec_pc,        \* codec exercise: "idle", an input position, then what was done
    codec_in,        \* codec exercise: the arguments of construct_package
    codec_buf,       \* codec exercise: the constructed buffer
    codec_out        \* codec exercise: what the accessors return for it

video_vars ==
    <<vid_pc, vid_received, vid_dgram, vid_pushed, samples, proc_pc, chan, frames_sent,
      player_got>>

session_vars ==
    <<overflow_checks, process, is_running, now, main_pc, cmd_pc, cmd_deadline,
      buffer, received, last_dgram, cmd_event, cmd_reads, ping_pc, ping_wake,
      sent, acked_at, stopped_at, stopped_sent, video_vars>>

codec_vars == <<codec_pc, codec_in, codec_buf, codec_out>>

vars == <<session_vars, codec_vars>>

\* ------------------------------------------------------------------------
\* Bounds of the model and constants of the program
\* ------------------------------------------------------------------------

MaxTime == 4

MaxDatagrams == 2

MaxPayloadLen == 2

BUFFER_SIZE == 4096

READ_TIMEOUT_SECS == 1

PING_SLEEP_MILLIS == 2000

PingSleepSecs == PING_SLEEP_MILLIS \div 1000

VIDEO_REQ_TYPE == 4

VIDEO_REQ_ID == 37

VIDEO_REQ_SEQ == 0

CONNECTED_ID == 2

FLIGHT_DATA_ID == 86

FLIGHT_DATA_LEN == 24

\* ------------------------------------------------------------------------
\* The datagrams the network may deliver on the command socket
\* ------------------------------------------------------------------------

\* a 24-byte flight data payload: height 100, battery 75, camera state 1
FlightPayload ==
    [i \in 1..FLIGHT_DATA_LEN |->
        IF i = 1 THEN 100 ELSE IF i = 13 THEN 75 ELSE IF i = 21 THEN 1 ELSE 0]

FlipBit(bytes, off, bit) == Poke(bytes, off, Xor(bytes[off + 1], bit))

\* a gram that declares n bytes in its size field, n in 7..10, both of whose
\* checksums match: header, size, crc8, discriminator, then the low byte of
\* command at offset 5, zeros up to the checksum, and the 16-bit checksum
ShortGram(n, command) ==
    LET b0 == Poke16(Poke(Zeros(n - 2), 0, 204), 1, n * 8)
        b1 == Poke(b0, 3, calculate_crc8(SubSeq(b0, 1, 3)))
        b2 == Poke(Poke(b1, 4, 128), 5, command)
        crc == calculate_crc16(b2)
    IN  b2 \o <<crc % 256, crc \div 256>>

\* an 11-byte datagram whose size field declares n bytes and whose header
\* checksum matches
Declaring(n) ==
    LET b0 == Poke16(Poke(Zeros(GRAM_SIZE), 0, 204), 1, (n * 8) % 65536)
    IN  Poke(b0, 3, calculate_crc8(SubSeq(b0, 1, 3)))

UnhandledGram == construct_package(1, 26, 7, <<5>>)

\* an 11-byte datagram that begins with the byte first instead of 0xCC, whose
\* crc8 and crc16 fields are computed over the bytes it does carry
ForeignGram(first) ==
    LET b0 == Poke(construct_package(1, 26, 9, <<>>), 0, first)
        b1 == Poke(b0, 3, calculate_crc8(SubSeq(b0, 1, 3)))
        crc == calculate_crc16(SubSeq(b1, 1, GRAM_SIZE - 2))
    IN  SubSeq(b1, 1, GRAM_SIZE - 2) \o <<crc % 256, crc \div 256>>

Datagrams ==
    { CONN_ACK,
      CONN_ACK \o <<150, 23>>,
      SubSeq(CONN_ACK, 1, 4),
      <<>>,
      construct_package(1, FLIGHT_DATA_ID, 1, FlightPayload),
      construct_package(1, FLIGHT_DATA_ID, 2, <<>>),
      construct_package(1, CONNECTED_ID, 3, <<>>),
      UnhandledGram,
      FlipBit(UnhandledGram, 9, 1),
      SubSeq(UnhandledGram, 1, 10),
      ShortGram(9, 26),
      ShortGram(9, FLIGHT_DATA_ID),
      Declaring(BUFFER_SIZE + 1),
      ForeignGram(0) }

\* the datagrams delivered while the whole session, with its timing, is run
SessionDatagrams ==
    { CONN_ACK \o <<150, 23>>,
      UnhandledGram,
      construct_package(1, FLIGHT_DATA_ID, 2, <<>>) }

\* ------------------------------------------------------------------------
\* cmd_listen_thread
\* ------------------------------------------------------------------------

Event(kind, command, data) == [kind |-> kind, id |-> command, data |-> data]

NoEvent == Event("none", 0, {})

\* socket.recv(&mut buffer): the datagram replaces the first bytes of the
\* buffer and the rest of the buffer keeps what it held
Overlay(buf, dgram) ==
    [i \in 1..(IF Len(buf) > Len(dgram) THEN Len(buf) ELSE Len(dgram)) |->
        IF i <= Len(dgram) THEN dgram[i] ELSE buf[i]]

\* the buffer's content compared as a whole with the text
starts_with_exact(gram, prefix) == gram.bytes = prefix

\* buffer.starts_with(prefix)
starts_with(gram, prefix) == \A i \in 1..Len(prefix) : ByteAt(gram, i - 1) = prefix[i]

\* a dispatch whose default arm fails instead of printing
Dispatch_default_panics(gram, checks) ==
    IF id(gram) = CONNECTED_ID THEN {Event("connected", id(gram), {})}
    ELSE IF id(gram) = FLIGHT_DATA_ID /\ size(gram) - GRAM_SIZE = FLIGHT_DATA_LEN
    THEN {Event("flight", id(gram), {FlightData(payload(gram))})}
    ELSE {Event("panic", id(gram), {})}

\* match gram.id() { ... } for a gram is_valid() accepted: the ways it can end
Dispatch(gram, checks) ==
    IF id(gram) = CONNECTED_ID THEN {Event("connected", id(gram), {})}
    ELSE IF id(gram) = FLIGHT_DATA_ID THEN
        \* gram.payload(): size() - GRAM_SIZE overflows below 11
        IF size(gram) < GRAM_SIZE
        THEN IF checks THEN {Event("panic", id(gram), {})}
             ELSE {Event("panic", id(gram), {}), Event("crash", id(gram), {})}
        ELSE IF size(gram) > gram.cap
        THEN {Event("panic", id(gram), {}), Event("crash", id(gram), {})}
        \* FlightData::from: assert!(bytes.len() == 24)
        ELSE IF Len(payload(gram)) # FLIGHT_DATA_LEN THEN {Event("panic", id(gram), {})}
        ELSE {Event("flight", id(gram), {FlightData(payload(gram))})}
    ELSE {Event("unhandled", id(gram), {})}

\* the body of Ok(num_bytes) => { ... }: the ways it can end
Handle(gram, checks) ==
    IF starts_with(gram, CONN_ACK) THEN {Event("conn_ack", 0, {})}
    ELSE UNION { IF v = "true" THEN Dispatch(gram, checks)
                 ELSE IF v = "false" THEN {Event("invalid", 0, {})}
                 ELSE {Event(v, 0, {})} : v \in is_valid(gram, checks) }

Dispatched == {"connected", "flight", "unhandled"}

\* the loop condition: while is_running.load() { recv ... }
CmdCheck ==
    /\ process = "running"
    /\ cmd_pc = "check"
    /\ IF is_running
       THEN cmd_pc' = "recv" /\ cmd_deadline' = now + READ_TIMEOUT_SECS
       ELSE cmd_pc' = "done" /\ UNCHANGED cmd_deadline
    /\ UNCHANGED <<overflow_checks, process, is_running, now, main_pc, buffer,
                   received, last_dgram, cmd_event, cmd_reads, ping_pc, ping_wake,
                   sent, acked_at, stopped_at, stopped_sent, codec_vars, video_vars>>

\* recv returns Ok(num_bytes) with datagram dgram, and the match arm runs
CmdRecvOk(dgram) ==
    /\ process = "running"
    /\ cmd_pc = "recv"
    /\ received < MaxDatagrams
    /\ LET gram == Mem(Overlay(buffer, dgram), BUFFER_SIZE)
       IN  /\ buffer' = gram.bytes
           /\ cmd_reads' = (IF starts_with(gram, CONN_ACK) THEN Len(CONN_ACK)
                            ELSE is_valid_reads(gram))
           /\ \E e \in Handle(gram, overflow_checks) :
                /\ cmd_event' = e
                /\ cmd_pc' = (IF e.kind \in {"panic", "crash"} THEN "panicked" ELSE "check")
                /\ process' = (IF e.kind = "crash" THEN "aborted" ELSE process)
                /\ acked_at' = (IF e.kind = "conn_ack" /\ acked_at < 0
                                THEN Len(sent) ELSE acked_at)
    /\ last_dgram' = dgram
    /\ received' = received + 1
    /\ UNCHANGED <<overflow_checks, is_running, now, main_pc, cmd_deadline, ping_pc,
                   ping_wake, sent, stopped_at, stopped_sent, codec_vars, video_vars>>

\* a receive error that ends the loop
CmdRecvErrEndsLoop ==
    /\ process = "running"
    /\ cmd_pc = "recv"
    /\ cmd_event' = Event("recv_failed", 0, {})
    /\ last_dgram' = <<>>
    /\ cmd_reads' = 0
    /\ cmd_pc' = "done"
    /\ UNCHANGED <<overflow_checks, process, is_running, now, main_pc, cmd_deadline,
                   buffer, received, ping_pc, ping_wake, sent, acked_at, stopped_at, stopped_sent,
                   codec_vars, video_vars>>

\* recv returns Err: the read timeout ran out, or the socket reported an error
CmdRecvErr ==
    /\ process = "running"
    /\ cmd_pc = "recv"
    /\ cmd_event' = Event("recv_failed", 0, {})
    /\ last_dgram' = <<>>
    /\ cmd_reads' = 0
    /\ cmd_pc' = "check"
    /\ UNCHANGED <<overflow_checks, process, is_running, now, main_pc, cmd_deadline,
                   buffer, received, ping_pc, ping_wake, sent, acked_at, stopped_at, stopped_sent,
                   codec_vars, video_vars>>

\* ------------------------------------------------------------------------
\* video_package_ping_thread
\* ------------------------------------------------------------------------

\* the loop condition: while is_running.load()
PingCheck ==
    /\ process = "running"
    /\ ping_pc = "check"
    /\ ping_pc' = (IF is_running THEN "send" ELSE "done")
    /\ UNCHANGED <<overflow_checks, process, is_running, now, main_pc, cmd_pc,
                   cmd_deadline, buffer, received, last_dgram, cmd_event, cmd_reads,
                   ping_wake, sent, acked_at, stopped_at, stopped_sent, codec_vars,
                   video_vars>>

\* a request whose sequence number counts the datagrams sent so far
PingSendCounting ==
    /\ process = "running"
    /\ ping_pc = "send"
    /\ sent' = Append(sent, construct_package(VIDEO_REQ_TYPE, VIDEO_REQ_ID, Len(sent), <<>>))
    /\ ping_pc' = "sleep"
    /\ ping_wake' = now + PingSleepSecs
    /\ UNCHANGED <<overflow_checks, process, is_running, now, main_pc, cmd_pc,
                   cmd_deadline, buffer, received, last_dgram, cmd_event, cmd_reads,
                   acked_at, stopped_at, stopped_sent, codec_vars, video_vars>>

\* the loop body: the request is built and sent, and the sleep begins
PingSend ==
    /\ process = "running"
    /\ ping_pc = "send"
    /\ \E send_ok \in BOOLEAN :
         IF send_ok
         THEN /\ sent' = Append(sent, construct_package(VIDEO_REQ_TYPE, VIDEO_REQ_ID,
                                                        VIDEO_REQ_SEQ, <<>>))
              /\ ping_pc' = "sleep"
              /\ ping_wake' = now + PingSleepSecs
         ELSE /\ ping_pc' = "panicked"
              /\ UNCHANGED <<sent, ping_wake>>
    /\ UNCHANGED <<overflow_checks, process, is_running, now, main_pc, cmd_pc,
                   cmd_deadline, buffer, received, last_dgram, cmd_event, cmd_reads,
                   acked_at, stopped_at, stopped_sent, codec_vars, video_vars>>

\* a sleep that is followed by the send, without the loop condition
PingWakeNoCheck ==
    /\ process = "running"
    /\ ping_pc = "sleep"
    /\ now >= ping_wake
    /\ ping_pc' = "send"
    /\ UNCHANGED <<overflow_checks, process, is_running, now, main_pc, cmd_pc,
                   cmd_deadline, buffer, received, last_dgram, cmd_event, cmd_reads,
                   ping_wake, sent, acked_at, stopped_at, stopped_sent, codec_vars,
                   video_vars>>

\* thread::sleep returns
PingWake ==
    /\ process = "running"
    /\ ping_pc = "sleep"
    /\ now >= ping_wake
    /\ ping_pc' = "check"
    /\ UNCHANGED <<overflow_checks, process, is_running, now, main_pc, cmd_pc,
                   cmd_deadline, buffer, received, last_dgram, cmd_event, cmd_reads,
                   ping_wake, sent, acked_at, stopped_at, stopped_sent, codec_vars, video_vars>>

\* ------------------------------------------------------------------------
\* video_listen_thread, video_processor_thread and the player's channel
\* ------------------------------------------------------------------------

\* the variables of main, cmd_listen_thread and video_package_ping_thread
command_vars ==
    <<overflow_checks, process, is_running, now, main_pc, cmd_pc, cmd_deadline, buffer,
      received, last_dgram, cmd_event, cmd_reads, ping_pc, ping_wake, sent, acked_at,
      stopped_at, stopped_sent>>

\* the datagrams the network may deliver on the video socket: a 2-byte
\* transport header and the video bytes after it, or less
VideoDatagrams ==
    { <<>>,
      <<5>>,
      <<0, 1>>,
      <<0, 1, 103, 66>>,
      <<1, 128, 0, 0, 1>> }

\* for i in 0..num_bytes - 2 { databuf[i] = buffer[i + 2] }
databuf(dgram) == [i \in 1..(Len(dgram) - 2) |-> dgram[i + 2]]

\* the loop condition of video_listen_thread
VidCheck ==
    /\ process = "running"
    /\ vid_pc = "check"
    /\ vid_pc' = (IF is_running THEN "recv" ELSE "done")
    /\ UNCHANGED <<command_vars, codec_vars, vid_received, vid_dgram, vid_pushed,
                   samples, proc_pc, chan, frames_sent, player_got>>

\* video_socket.recv returns Ok(num_bytes) with datagram dgram.  Below two
\* bytes num_bytes - 2 overflows: a build with overflow checks panics there,
\* one without asks vec! for more than isize::MAX bytes, which panics too.
\* Each buffer pushed into the pipeline is taken to come out as one sample.
VidRecvOk(dgram) ==
    /\ process = "running"
    /\ vid_pc = "recv"
    /\ vid_received < MaxDatagrams
    /\ vid_received' = vid_received + 1
    /\ vid_dgram' = dgram
    /\ IF Len(dgram) < 2
       THEN /\ vid_pc' = "panicked"
            /\ vid_pushed' = {}
            /\ UNCHANGED samples
       ELSE /\ vid_pushed' = {databuf(dgram)}
            /\ \E push_ok \in BOOLEAN :
                 IF push_ok
                 THEN vid_pc' = "check" /\ samples' = samples + 1
                 ELSE vid_pc' = "panicked" /\ UNCHANGED samples
    /\ UNCHANGED <<command_vars, codec_vars, proc_pc, chan, frames_sent, player_got>>

\* video_socket.recv returns Err; no read timeout is set on the video socket
VidRecvErr ==
    /\ process = "running"
    /\ vid_pc = "recv"
    /\ vid_pc' = "check"
    /\ UNCHANGED <<command_vars, codec_vars, vid_received, vid_dgram, vid_pushed,
                   samples, proc_pc, chan, frames_sent, player_got>>

\* the Receiver of the frame channel: created with the channel, moved into
\* the Player, and dropped when Player::run(self) returns
ReceiverExists ==
    process = "running" /\ main_pc \in {"send_connect", "spawn_ping", "player_run"}

\* the loop condition of video_processor_thread
ProcCheck ==
    /\ process = "running"
    /\ proc_pc = "check"
    /\ proc_pc' = (IF is_running THEN "pull" ELSE "done")
    /\ UNCHANGED <<command_vars, codec_vars, vid_pc, vid_received, vid_dgram,
                   vid_pushed, samples, chan, frames_sent, player_got>>

\* try_pull_sample returns Some(sample): video_sender.send(Frame).expect(..)
ProcPullSome ==
    /\ process = "running"
    /\ proc_pc = "pull"
    /\ samples > 0
    /\ samples' = samples - 1
    /\ IF ReceiverExists
       THEN /\ chan' = Append(chan, frames_sent + 1)
            /\ frames_sent' = frames_sent + 1
            /\ proc_pc' = "check"
       ELSE /\ proc_pc' = "panicked"
            /\ UNCHANGED <<chan, frames_sent>>
    /\ UNCHANGED <<command_vars, codec_vars, vid_pc, vid_received, vid_dgram,
                   vid_pushed, player_got>>

\* try_pull_sample returns None after its second, and the loop condition
\* is evaluated
ProcPullNone ==
    /\ process = "running"
    /\ proc_pc = "pull"
    /\ samples = 0
    /\ proc_pc' = (IF is_running THEN "pull" ELSE "done")
    /\ UNCHANGED <<command_vars, codec_vars, vid_pc, vid_received, vid_dgram,
                   vid_pushed, samples, chan, frames_sent, player_got>>

\* Player::run: self.receiver.try_recv() returns a frame
PlayerTryRecv ==
    /\ process = "running"
    /\ main_pc = "player_run"
    /\ chan # <<>>
    /\ player_got' = Append(player_got, Head(chan))
    /\ chan' = Tail(chan)
    /\ UNCHANGED <<command_vars, codec_vars, vid_pc, vid_received, vid_dgram,
                   vid_pushed, samples, proc_pc, frames_sent>>

\* ------------------------------------------------------------------------
\* main
\* ------------------------------------------------------------------------

Finished(pc) == pc \in {"done", "panicked"}

\* both workers started before the connect request goes out
MainSpawnCmdAndPing ==
    /\ process = "running"
    /\ main_pc = "spawn_cmd"
    /\ cmd_pc' = "check"
    /\ ping_pc' = "check"
    /\ main_pc' = "spawn_video"
    /\ UNCHANGED <<overflow_checks, process, is_running, now, cmd_deadline, buffer,
                   received, last_dgram, cmd_event, cmd_reads, ping_wake,
                   sent, acked_at, stopped_at, stopped_sent, codec_vars, video_vars>>

MainSpawnCmd ==
    /\ process = "running"
    /\ main_pc = "spawn_cmd"
    /\ cmd_pc' = "check"
    /\ main_pc' = "spawn_video"
    /\ UNCHANGED <<overflow_checks, process, is_running, now, cmd_deadline, buffer,
                   received, last_dgram, cmd_event, cmd_reads, ping_pc, ping_wake,
                   sent, acked_at, stopped_at, stopped_sent, codec_vars, video_vars>>

\* video_listen_thread and video_processor_thread are spawned, the frame
\* channel is created and its Receiver is handed to Player::new
MainSpawnVideo ==
    /\ process = "running"
    /\ main_pc = "spawn_video"
    /\ vid_pc' = "check"
    /\ proc_pc' = "check"
    /\ main_pc' = "send_connect"
    /\ UNCHANGED <<overflow_checks, process, is_running, now, cmd_pc, cmd_deadline, buffer,
                   received, last_dgram, cmd_event, cmd_reads, ping_pc, ping_wake, sent,
                   acked_at, stopped_at, stopped_sent, codec_vars, vid_received,
                   vid_dgram, vid_pushed, samples, chan, frames_sent, player_got>>

\* a connect request that is sent a second time
MainSendConnectTwice ==
    /\ process = "running"
    /\ main_pc = "send_connect"
    /\ sent' = sent \o <<as_bytes(VIDEO_PORT), as_bytes(VIDEO_PORT)>>
    /\ main_pc' = "spawn_ping"
    /\ UNCHANGED <<overflow_checks, process, is_running, now, cmd_pc, cmd_deadline, buffer,
                   received, last_dgram, cmd_event, cmd_reads, ping_pc, ping_wake,
                   acked_at, stopped_at, stopped_sent, codec_vars, video_vars>>

\* cmd_socket_write.send(connect_request.as_bytes()).expect(...)
MainSendConnect ==
    /\ process = "running"
    /\ main_pc = "send_connect"
    /\ \E send_ok \in BOOLEAN :
         IF send_ok
         THEN /\ sent' = Append(sent, as_bytes(VIDEO_PORT))
              /\ main_pc' = "spawn_ping"
              /\ UNCHANGED process
         ELSE /\ main_pc' = "panicked"
              /\ process' = "exited"
              /\ UNCHANGED sent
    /\ UNCHANGED <<overflow_checks, is_running, now, cmd_pc, cmd_deadline, buffer,
                   received, last_dgram, cmd_event, cmd_reads, ping_pc, ping_wake,
                   acked_at, stopped_at, stopped_sent, codec_vars, video_vars>>

MainSpawnPing ==
    /\ process = "running"
    /\ main_pc = "spawn_ping"
    /\ ping_pc' = "check"
    /\ main_pc' = "player_run"
    /\ UNCHANGED <<overflow_checks, process, is_running, now, cmd_pc, cmd_deadline,
                   buffer, received, last_dgram, cmd_event, cmd_reads, ping_wake,
                   sent, acked_at, stopped_at, stopped_sent, codec_vars, video_vars>>

\* player.run() returns, and is_running.store(false) follows
MainStop ==
    /\ process = "running"
    /\ main_pc = "player_run"
    /\ is_running' = FALSE
    /\ stopped_at' = now
    /\ stopped_sent' = Len(sent)
    /\ main_pc' = "join_ping"
    /\ UNCHANGED <<overflow_checks, process, now, cmd_pc, cmd_deadline, buffer,
                   received, last_dgram, cmd_event, cmd_reads, ping_pc, ping_wake,
                   sent, acked_at, codec_vars, video_vars>>

\* video_package_ping_thread.join().expect(...)
MainJoinPing ==
    /\ process = "running"
    /\ main_pc = "join_ping"
    /\ Finished(ping_pc)
    /\ IF ping_pc = "panicked"
       THEN main_pc' = "panicked" /\ process' = "exited"
       ELSE main_pc' = "join_video" /\ UNCHANGED process
    /\ UNCHANGED <<overflow_checks, is_running, now, cmd_pc, cmd_deadline, buffer,
                   received, last_dgram, cmd_event, cmd_reads, ping_pc, ping_wake,
                   sent, acked_at, stopped_at, stopped_sent, codec_vars, video_vars>>

\* video_listen_thread.join().expect(...)
MainJoinVideo ==
    /\ process = "running"
    /\ main_pc = "join_video"
    /\ Finished(vid_pc)
    /\ IF vid_pc = "panicked"
       THEN main_pc' = "panicked" /\ process' = "exited"
       ELSE main_pc' = "join_processor" /\ UNCHANGED process
    /\ UNCHANGED <<overflow_checks, is_running, now, cmd_pc, cmd_deadline, buffer,
                   received, last_dgram, cmd_event, cmd_reads, ping_pc, ping_wake,
                   sent, acked_at, stopped_at, stopped_sent, codec_vars, video_vars>>

\* video_processor_thread.join().expect(...)
MainJoinProcessor ==
    /\ process = "running"
    /\ main_pc = "join_processor"
    /\ Finished(proc_pc)
    /\ IF proc_pc = "panicked"
       THEN main_pc' = "panicked" /\ process' = "exited"
       ELSE main_pc' = "join_cmd" /\ UNCHANGED process
    /\ UNCHANGED <<overflow_checks, is_running, now, cmd_pc, cmd_deadline, buffer,
                   received, last_dgram, cmd_event, cmd_reads, ping_pc, ping_wake,
                   sent, acked_at, stopped_at, stopped_sent, codec_vars, video_vars>>

\* cmd_listen_thread.join().expect(...), then main returns
MainJoinCmd ==
    /\ process = "running"
    /\ main_pc = "join_cmd"
    /\ Finished(cmd_pc)
    /\ main_pc' = (IF cmd_pc = "panicked" THEN "panicked" ELSE "closed")
    /\ process' = "exited"
    /\ UNCHANGED <<overflow_checks, is_running, now, cmd_pc, cmd_deadline, buffer,
                   received, last_dgram, cmd_event, cmd_reads, ping_pc, ping_wake,
                   sent, acked_at, stopped_at, stopped_sent, codec_vars, video_vars>>

\* the loop of a worker thread is executing
CmdLooping == cmd_pc \in {"check", "recv"}

PingLooping == ping_pc \in {"check", "send", "sleep"}

\* the command socket: cmd_socket_read is moved into cmd_listen_thread and
\* cmd_socket_write into video_package_ping_thread, each dropped when the
\* closure that owns it ends; the socket is open while the process lives and
\* one of the two handles does
SocketOpen == process = "running" /\ (~Finished(cmd_pc) \/ ~Finished(ping_pc))

\* ------------------------------------------------------------------------
\* Time: a second passes when every thread is blocked and no pending
\* timeout or sleep has run out
\* ------------------------------------------------------------------------

CmdBlocked == cmd_pc \in {"unborn", "done", "panicked"} \/ (cmd_pc = "recv" /\ now < cmd_deadline)

PingBlocked == ping_pc \in {"unborn", "done", "panicked"} \/ (ping_pc = "sleep" /\ now < ping_wake)

MainBlocked ==
    \/ main_pc = "player_run"
    \/ main_pc = "join_ping" /\ ~Finished(ping_pc)
    \/ main_pc = "join_video" /\ ~Finished(vid_pc)
    \/ main_pc = "join_processor" /\ ~Finished(proc_pc)
    \/ main_pc = "join_cmd" /\ ~Finished(cmd_pc)

Tick ==
    /\ process = "running"
    /\ now < MaxTime
    /\ MainBlocked /\ CmdBlocked /\ PingBlocked
    /\ now' = now + 1
    /\ UNCHANGED <<overflow_checks, process, is_running, main_pc, cmd_pc, cmd_deadline,
                   buffer, received, last_dgram, cmd_event, cmd_reads, ping_pc,
                   ping_wake, sent, acked_at, stopped_at, stopped_sent, codec_vars, video_vars>>

\* ------------------------------------------------------------------------
\* The session
\* ------------------------------------------------------------------------

CodecIdle ==
    /\ codec_pc = "idle"
    /\ codec_in = [kind |-> 0, id |-> 0, seq |-> 0, payload |-> <<>>, port |-> 0]
    /\ codec_buf = <<>>
    /\ codec_out = {}

SessionStart ==
    /\ process = "running"
    /\ is_running = TRUE
    /\ now = 0
    /\ main_pc = "spawn_cmd"
    /\ cmd_pc = "unborn"
    /\ cmd_deadline = 0
    /\ buffer = <<>>
    /\ received = 0
    /\ last_dgram = <<>>
    /\ cmd_event = NoEvent
    /\ cmd_reads = 0
    /\ ping_pc = "unborn"
    /\ ping_wake = 0
    /\ sent = <<>>
    /\ acked_at = -1
    /\ stopped_at = -1
    /\ stopped_sent = -1
    /\ vid_pc = "unborn"
    /\ vid_received = 0
    /\ vid_dgram = <<>>
    /\ vid_pushed = {}
    /\ samples = 0
    /\ proc_pc = "unborn"
    /\ chan = <<>>
    /\ frames_sent = 0
    /\ player_got = <<>>

Init ==
    /\ overflow_checks \in BOOLEAN
    /\ SessionStart
    /\ CodecIdle

\* the video threads while the command socket is examined: the schedule in
\* which each of them first gets to run when main waits for it in its join
VideoLate ==
    \/ MainSpawnVideo
    \/ MainJoinVideo
    \/ MainJoinProcessor
    \/ main_pc = "join_video" /\ VidCheck
    \/ main_pc = "join_processor" /\ ProcCheck

Next ==
    \/ MainSpawnCmd
    \/ MainSendConnect
    \/ MainSpawnPing
    \/ MainStop
    \/ MainJoinPing
    \/ MainJoinCmd
    \/ CmdCheck
    \/ \E dgram \in SessionDatagrams : CmdRecvOk(dgram)
    \/ CmdRecvErr
    \/ PingCheck
    \/ PingSend
    \/ PingWake
    \/ Tick
    \/ VideoLate

Spec == Init /\ [][Next]_vars

\* ------------------------------------------------------------------------
\* The receive loop against every kind of datagram, within the first
\* keepalive interval of the session
\* ------------------------------------------------------------------------

NextRecv ==
    \/ MainSpawnCmd
    \/ MainSendConnect
    \/ MainSpawnPing
    \/ MainStop
    \/ MainJoinPing
    \/ MainJoinCmd
    \/ CmdCheck
    \/ \E dgram \in Datagrams : CmdRecvOk(dgram)
    \/ CmdRecvErr
    \/ PingCheck
    \/ PingSend
    \/ VideoLate

SpecRecv == Init /\ [][NextRecv]_vars

\* ------------------------------------------------------------------------
\* The video path and the shutdown of all four workers, with a silent
\* command socket
\* ------------------------------------------------------------------------

NextVideo ==
    \/ MainSpawnCmd
    \/ MainSpawnVideo
    \/ MainSendConnect
    \/ MainSpawnPing
    \/ MainStop
    \/ MainJoinPing
    \/ MainJoinVideo
    \/ MainJoinProcessor
    \/ MainJoinCmd
    \/ CmdCheck
    \/ CmdRecvErr
    \/ PingCheck
    \/ PingSend
    \/ VidCheck
    \/ \E dgram \in VideoDatagrams : VidRecvOk(dgram)
    \/ VidRecvErr
    \/ ProcCheck
    \/ ProcPullSome
    \/ ProcPullNone
    \/ PlayerTryRecv

SpecVideo == Init /\ [][NextVideo]_vars

\* ------------------------------------------------------------------------
\* The codec on its own: a gram is constructed and read back
\* ------------------------------------------------------------------------

CodecKinds == 0..7 \cup {9, 255}

CodecIds == {0, CONNECTED_ID, VIDEO_REQ_ID, FLIGHT_DATA_ID, 65535}

CodecSeqs == {0, 258, 65535}

PayloadBytes == {0, 204, 255}

Payloads == UNION {[1..n -> PayloadBytes] : n \in 0..MaxPayloadLen}

CodecConstruct ==
    /\ codec_pc = "input"
    /\ codec_buf' = construct_package(codec_in.kind, codec_in.id, codec_in.seq,
                                      codec_in.payload)
    /\ codec_pc' = "built"
    /\ UNCHANGED <<codec_in, codec_out, session_vars>>

\* the accessors applied to the constructed Vec
CodecRead ==
    /\ codec_pc = "built"
    /\ LET gram == Mem(codec_buf, Len(codec_buf))
       IN  codec_out' = {[valid |-> is_valid(gram, overflow_checks),
                          header |-> header(gram),
                          size |-> size(gram),
                          direction |-> packet_direction(gram),
                          type |-> packet_type(gram),
                          subtype |-> packet_subtype(gram),
                          id |-> id(gram),
                          sequence |-> sequence(gram),
                          payload |-> payload(gram),
                          crc16 |-> crc16(gram)]}
    /\ codec_pc' = "read"
    /\ UNCHANGED <<codec_in, codec_buf, session_vars>>

\* 24-byte telemetry payloads: the decoded offsets 0, 1, 12 and 20 vary, and
\* so do their neighbours (fill)
TelemetryPayloads ==
    { [i \in 1..FLIGHT_DATA_LEN |->
          IF i = 1 THEN b0 ELSE IF i = 2 THEN b1 ELSE IF i = 13 THEN b12
          ELSE IF i = 21 THEN b20 ELSE fill] :
      b0 \in {0, 100, 255}, b1 \in {0, 1, 255}, b12 \in {0, 75}, b20 \in {0, 1},
      fill \in {0, 170} }

\* payloads FlightData::from is not written for
WrongLengthPayloads ==
    { [i \in 1..n |-> 100] :
        n \in (0..MaxPayloadLen) \cup {FLIGHT_DATA_LEN - 1, FLIGHT_DATA_LEN + 1} }

\* FlightData::from(bytes): the ways the call can end
FlightData_from(bytes) ==
    IF Len(bytes) = FLIGHT_DATA_LEN
    THEN [kind |-> "record", data |-> {FlightData(bytes)}]
    ELSE [kind |-> "panic", data |-> {}]

\* FlightData::from applied to a payload
CodecDecode ==
    /\ codec_pc = "telemetry"
    /\ codec_out' = {FlightData_from(codec_in.payload)}
    /\ codec_pc' = "decoded"
    /\ UNCHANGED <<codec_in, codec_buf, session_vars>>

\* the video ports a connect request is built for
Ports == {0, 1, 255, 256, 257, VIDEO_PORT, 32767, 32768, 65280, 65535}

\* TelloConnectRequest::connect(video_port).as_bytes()
CodecConnect ==
    /\ codec_pc = "connect"
    /\ codec_buf' = as_bytes(codec_in.port)
    /\ codec_pc' = "request"
    /\ UNCHANGED <<codec_in, codec_out, session_vars>>

\* the accessors of the discriminator applied to a gram whose byte 4 is
\* codec_in.kind
CodecDiscriminate ==
    /\ codec_pc = "discriminator"
    /\ codec_buf' = Poke(Zeros(GRAM_SIZE), 4, codec_in.kind)
    /\ LET gram == Mem(codec_buf', GRAM_SIZE)
       IN  codec_out' = {[direction |-> packet_direction(gram),
                          type |-> packet_type(gram),
                          subtype |-> packet_subtype(gram)]}
    /\ codec_pc' = "discriminated"
    /\ UNCHANGED <<codec_in, session_vars>>

\* total lengths up to and past the largest the size field can hold
LongLengths == {16, 35, 4096, 8191, 8192, 8193}

\* construct_package on a long payload, and size() of the result
CodecConstructLong ==
    /\ codec_pc = "long"
    /\ codec_buf' = construct_package(codec_in.kind, codec_in.id, codec_in.seq,
                                      codec_in.payload)
    /\ codec_out' = {[size |-> size(Mem(codec_buf', Len(codec_buf')))]}
    /\ codec_pc' = "sized"
    /\ UNCHANGED <<codec_in, session_vars>>

DiscriminatorInputs ==
    [kind : 0..255, id : {0}, seq : {0}, payload : {<<>>}, port : {VIDEO_PORT}]

LongInputs ==
    [kind : {VIDEO_REQ_TYPE}, id : {VIDEO_REQ_ID}, seq : {0},
     payload : {Zeros(n - GRAM_SIZE) : n \in LongLengths}, port : {VIDEO_PORT}]

CodecInputs ==
    [kind : CodecKinds, id : CodecIds, seq : CodecSeqs, payload : Payloads,
     port : {VIDEO_PORT}]

TelemetryInputs ==
    [kind : {0}, id : {FLIGHT_DATA_ID}, seq : {0},
     payload : TelemetryPayloads \cup WrongLengthPayloads, port : {VIDEO_PORT}]

ConnectInputs ==
    [kind : {0}, id : {0}, seq : {0}, payload : {<<>>}, port : Ports]

InitCodec ==
    /\ overflow_checks \in BOOLEAN
    /\ SessionStart
    /\ \/ codec_pc = "input" /\ codec_in \in CodecInputs
       \/ codec_pc = "telemetry" /\ codec_in \in TelemetryInputs
       \/ codec_pc = "connect" /\ codec_in \in ConnectInputs
       \/ codec_pc = "discriminator" /\ codec_in \in DiscriminatorInputs
       \/ codec_pc = "long" /\ codec_in \in LongInputs
    /\ codec_buf = <<>>
    /\ codec_out = {}

NextCodec ==
    \/ CodecConstruct
    \/ CodecRead
    \/ CodecDecode
    \/ CodecConnect
    \/ CodecDiscriminate
    \/ CodecConstructLong

SpecCodec == InitCodec /\ [][NextCodec]_vars

\* ------------------------------------------------------------------------
\* A constructed gram with one bit flipped, handed to is_valid
\* ------------------------------------------------------------------------

Bits == {1, 2, 4, 8, 16, 32, 64, 128}

\* payload lengths of the grams that are corrupted; 5 gives a gram of 16
\* bytes, whose size field has a single 1 bit
FlipPayloadLens == (0..MaxPayloadLen) \cup {5, FLIGHT_DATA_LEN}

FlipInputs ==
    [kind : {VIDEO_REQ_TYPE, 7}, id : {VIDEO_REQ_ID, 65535}, seq : {0, 258},
     payload : {[i \in 1..n |-> b] : n \in FlipPayloadLens, b \in {0, 255}},
     port : {VIDEO_PORT}]

\* one bit of the buffer changes between construction and validation
CodecFlip(off, bit) ==
    /\ codec_pc = "built"
    /\ off < Len(codec_buf)
    /\ codec_buf' = FlipBit(codec_buf, off, bit)
    /\ codec_pc' = "flipped"
    /\ UNCHANGED <<codec_in, codec_out, session_vars>>

\* is_valid() on the corrupted Vec
CodecValidate ==
    /\ codec_pc = "flipped"
    /\ codec_out' = {[valid |-> is_valid(Mem(codec_buf, Len(codec_buf)), overflow_checks)]}
    /\ codec_pc' = "checked"
    /\ UNCHANGED <<codec_in, codec_buf, session_vars>>

InitFlip ==
    /\ overflow_checks \in BOOLEAN
    /\ SessionStart
    /\ codec_pc = "input"
    /\ codec_in \in FlipInputs
    /\ codec_buf = <<>>
    /\ codec_out = {}

NextFlip ==
    \/ CodecConstruct
    \/ \E off \in 0..(GRAM_SIZE + FLIGHT_DATA_LEN - 1), bit \in Bits : CodecFlip(off, bit)
    \/ CodecValidate

SpecFlip == InitFlip /\ [][NextFlip]_vars

\* ------------------------------------------------------------------------
\* Properties
\* ------------------------------------------------------------------------

Keepalive == construct_package(VIDEO_REQ_TYPE, VIDEO_REQ_ID, VIDEO_REQ_SEQ, <<>>)

\* the receive buffer as the gram cmd_listen_thread casts it to
Received == Mem(buffer, BUFFER_SIZE)

\* the last iteration of the receive loop got a datagram
GotDatagram == cmd_event.kind \notin {"none", "recv_failed"}

\* the last iteration reached match gram.id() { ... }
HandlerRan ==
    \/ cmd_event.kind \in Dispatched
    \/ cmd_event.kind \in {"panic", "crash"} /\ cmd_event.id = FLIGHT_DATA_ID

BeginsWith(bytes, prefix) ==
    Len(bytes) >= Len(prefix) /\ SubSeq(bytes, 1, Len(prefix)) = prefix

\* C1: a gram constructed from a kind in 0..7, an id, a sequence and a payload
\* is accepted by is_valid, and packet_type, id, sequence and payload read
\* back the values it was constructed from.
C1_RoundTrip ==
    (codec_pc = "read" /\ codec_in.kind \in 0..7) =>
        \A o \in codec_out :
            /\ o.valid = {"true"}
            /\ o.type = codec_in.kind
            /\ o.id = codec_in.id
            /\ o.sequence = codec_in.seq
            /\ o.payload = codec_in.payload

C1_Witness ==
    /\ codec_pc = "read"
    /\ codec_in.kind = 5
    /\ codec_in.id = 65535
    /\ codec_in.seq = 258
    /\ codec_in.payload = <<204, 255>>
    /\ \E o \in codec_out : o.valid = {"true"} /\ o.payload = <<204, 255>>

\* C2: whatever datagrams arrive, the command receive loop has not ended
\* while the shutdown flag is still set to running.
C2_LoopOutlivesDatagrams == is_running => ~Finished(cmd_pc)

\* C3: every keepalive gram on the command socket is sent after the receive
\* loop has read a datagram that begins with "conn_ack:".
C3_KeepaliveOnlyAfterAck ==
    \A i \in 1..Len(sent) : sent[i] = Keepalive => (acked_at >= 0 /\ acked_at < i)

\* C3, amended: every keepalive gram on the command socket is sent after the
\* conn_req datagram, which is the first datagram sent.
C3_KeepaliveAfterConnReq ==
    \A i \in 1..Len(sent) : sent[i] = Keepalive => (i > 1 /\ sent[1] = as_bytes(VIDEO_PORT))

C3_Witness ==
    /\ Len(sent) >= 2
    /\ sent[1] = as_bytes(VIDEO_PORT)
    /\ sent[2] = Keepalive
    /\ acked_at = -1

\* C4: more than one receive timeout after the shutdown flag was stored
\* false, the command receive loop and the keepalive loop have both ended.
C4_StoppedWithinReadTimeout ==
    (process = "running" /\ stopped_at >= 0 /\ now > stopped_at + READ_TIMEOUT_SECS) =>
        (Finished(cmd_pc) /\ Finished(ping_pc))

\* C5: a gram reaches the dispatch by id only if its crc8 field equals the
\* crc8 of bytes 0..2 and its crc16 field equals the crc16 of all its bytes
\* but the last two (stated for grams that lie inside the receive buffer).
C5_DispatchOnlyIfChecksumsMatch ==
    (HandlerRan /\ size(Received) <= BUFFER_SIZE) =>
        /\ size(Received) >= 2
        /\ calculate_crc8(Slice(Received, 0, 3)) = ByteAt(Received, 3)
        /\ calculate_crc16(Slice(Received, 0, size(Received) - 2))
             = ByteAt(Received, size(Received) - 2)
               + 256 * ByteAt(Received, size(Received) - 1)

C5_Witness ==
    /\ cmd_event = Event("unhandled", 26, {})
    /\ last_dgram = UnhandledGram
    /\ received = 2

\* C6: a datagram whose size field declares more bytes than were received is
\* rejected as invalid, and validating it reads no byte at or beyond the
\* received length.
C6_OversizeRejected ==
    (GotDatagram /\ cmd_event.kind # "conn_ack" /\ size(Received) > Len(last_dgram)) =>
        (cmd_event.kind = "invalid" /\ cmd_reads <= Len(last_dgram))

\* C7: a datagram of fewer than 11 bytes that does not begin with
\* "conn_ack:" is rejected as invalid, whatever was received before it.
C7_ShortDatagramRejected ==
    (GotDatagram /\ Len(last_dgram) < GRAM_SIZE /\ ~BeginsWith(last_dgram, CONN_ACK)) =>
        cmd_event.kind = "invalid"

\* C8: a gram whose size field decodes to less than 11 is rejected as
\* invalid: it is not dispatched, and no size arithmetic fails on it.
C8_SmallSizeRejected ==
    (GotDatagram /\ cmd_event.kind # "conn_ack" /\ size(Received) < GRAM_SIZE) =>
        cmd_event.kind = "invalid"

\* C9: the outcome of processing a datagram is one the same datagram has when
\* it is the first the receive loop reads.
C9_OutcomeOfDatagramAlone ==
    GotDatagram => cmd_event \in Handle(Mem(last_dgram, BUFFER_SIZE), overflow_checks)

\* C10: a datagram that begins with "conn_ack:" is classified as the
\* handshake ack, whatever follows the prefix and whatever was received
\* before, and only the prefix is examined.
C10_ConnAckClassified ==
    (GotDatagram /\ BeginsWith(last_dgram, CONN_ACK)) =>
        (cmd_event = Event("conn_ack", 0, {}) /\ cmd_reads = Len(CONN_ACK) /\ cmd_pc # "panicked")

C10_Witness ==
    /\ cmd_event.kind = "conn_ack"
    /\ last_dgram = CONN_ACK \o <<150, 23>>
    /\ received = 2
    /\ Len(buffer) > Len(last_dgram)

\* the gram in the receive buffer passes is_valid() whatever the build
ValidReceived ==
    /\ ~starts_with(Received, CONN_ACK)
    /\ is_valid(Received, overflow_checks) = {"true"}

\* C11: when any single bit of a gram produced by construct_package is
\* flipped, is_valid returns false.
C11_FlippedBitRejected ==
    codec_pc = "checked" => \A o \in codec_out : o.valid = {"false"}

\* C12: for a 24-byte payload FlightData::from returns height = payload[0] +
\* 256 * payload[1], battery_percentage = payload[12] and camera_state =
\* payload[20]; bytes 0x64, 0x00, 0x4B, 0x01 at those offsets give height 100,
\* battery 75, camera state 1.
C12_TelemetryDecode ==
    (codec_pc = "decoded" /\ Len(codec_in.payload) = 24) =>
        LET p == codec_in.payload
        IN  /\ codec_out =
                 {[kind |-> "record",
                   data |-> {[height |-> p[1] + 256 * p[2],
                              battery_percentage |-> p[13],
                              camera_state |-> p[21]]}]}
            /\ (p[1] = 100 /\ p[2] = 0 /\ p[13] = 75 /\ p[21] = 1) =>
                 \A o \in codec_out :
                     o.data = {[height |-> 100, battery_percentage |-> 75,
                                camera_state |-> 1]}

C12_Witness ==
    /\ codec_pc = "decoded"
    /\ codec_in.payload = FlightPayload
    /\ \E o \in codec_out : \E d \in o.data :
         d.height = 100 /\ d.battery_percentage = 75 /\ d.camera_state = 1

\* C13: a valid gram with id 0x56 whose payload is not 24 bytes long yields
\* no flight data record and leaves the receive loop running.
C13_WrongLengthLeavesLoopRunning ==
    (/\ GotDatagram
     /\ is_running
     /\ ValidReceived
     /\ id(Received) = FLIGHT_DATA_ID
     /\ size(Received) >= GRAM_SIZE
     /\ size(Received) - GRAM_SIZE # 24) =>
        (cmd_event.kind # "flight" /\ ~Finished(cmd_pc))

\* C14: a valid received gram whose id is neither 0x56 nor 0x02 is logged as
\* unhandled: the receive loop goes on to its next iteration and nothing of
\* the session but the receive buffer changes.
C14_UnhandledOnlyLogged ==
    /\ []((GotDatagram /\ ValidReceived
             /\ id(Received) \notin {FLIGHT_DATA_ID, CONNECTED_ID}) =>
            (/\ cmd_event = Event("unhandled", id(Received), {})
             /\ cmd_pc # "panicked"
             /\ process # "aborted"))
    /\ [][(received' = received + 1 /\ cmd_event'.kind = "unhandled") =>
             (/\ cmd_pc' = "check"
              /\ UNCHANGED <<process, is_running, now, main_pc, ping_pc, ping_wake,
                             sent, acked_at, stopped_at>>)]_vars

C14_Witness ==
    /\ cmd_event.kind = "unhandled"
    /\ last_dgram = UnhandledGram
    /\ received = 1
    /\ cmd_pc = "check"
    /\ is_running

\* C15: once shutdown has begun, the command socket is closed only after the
\* receive loop and the keepalive loop have both ended.
C15_SocketOpenWhileLoopsRun ==
    (stopped_at >= 0 /\ ~SocketOpen) => (~CmdLooping /\ ~PingLooping)

\* the positions of the conn_req datagram among the datagrams sent
ConnReqSends == {i \in 1..Len(sent) : sent[i] = as_bytes(VIDEO_PORT)}

\* C16: conn_req is sent exactly once, before every keepalive, and the
\* sender goes on to the keepalive loop without waiting for conn_ack.
C16_ConnReqOnceNoWait ==
    /\ Cardinality(ConnReqSends) <= 1
    /\ main_pc \in {"spawn_ping", "player_run", "join_ping", "join_video", "join_processor",
                   "join_cmd", "closed"} =>
         ConnReqSends = {1}
    /\ \A i \in 1..Len(sent) : sent[i] = Keepalive => (\E j \in ConnReqSends : j < i)
    /\ (process = "running" /\ main_pc = "spawn_ping") => ENABLED MainSpawnPing
    /\ (process = "running" /\ ping_pc = "check") => ENABLED PingCheck

C16_Witness ==
    /\ main_pc = "closed"
    /\ acked_at = -1
    /\ received = 0
    /\ Len(sent) >= 2
    /\ ConnReqSends = {1}
    /\ sent[2] = Keepalive

\* C17: for every video port the connect request is 11 bytes: "conn_req:",
\* then the port mod 256, then the port div 256.
C17_ConnectRequestBytes ==
    codec_pc = "request" =>
        /\ Len(codec_buf) = 11
        /\ SubSeq(codec_buf, 1, 9) = <<99, 111, 110, 110, 95, 114, 101, 113, 58>>
        /\ codec_buf[10] = codec_in.port % 256
        /\ codec_buf[11] = codec_in.port \div 256

C17_Witness ==
    /\ codec_pc = "request"
    /\ codec_in.port = 8040
    /\ codec_buf = <<99, 111, 110, 110, 95, 114, 101, 113, 58, 104, 31>>

\* C18: a receive error on the command socket, the read timeout included,
\* is logged and changes nothing of the session; the loop goes back to its
\* check of the shutdown flag, and no receive outlasts the read timeout, so
\* the flag is examined at least once per timeout interval.
C18_RecvErrorKeepsLoop ==
    /\ [][(cmd_pc = "recv" /\ cmd_pc' # "recv" /\ received' = received) =>
             (/\ cmd_event' = Event("recv_failed", 0, {})
              /\ cmd_pc' = "check"
              /\ UNCHANGED <<process, is_running, now, main_pc, buffer, ping_pc,
                             ping_wake, sent, acked_at, stopped_at>>)]_vars
    /\ []((process = "running" /\ cmd_pc = "recv") =>
             (now <= cmd_deadline /\ cmd_deadline <= now + READ_TIMEOUT_SECS))

C18_Witness ==
    /\ cmd_event.kind = "recv_failed"
    /\ cmd_pc = "recv"
    /\ received = 0
    /\ now = 2
    /\ is_running

\* C19: construct_package returns 11 + payload.len() bytes: 0xCC, the length
\* shifted left by 3 in little-endian, the crc8 of the three bytes before
\* it, the discriminator, id and sequence in little-endian, then the payload
\* unchanged from offset 9.
C19_ConstructedLayout ==
    codec_pc = "built" =>
        LET n == Len(codec_in.payload)
            b == codec_buf
        IN  /\ Len(b) = 11 + n
            /\ b[1] = 204
            /\ b[2] = ((11 + n) * 8) % 256
            /\ b[3] = ((11 + n) * 8) \div 256
            /\ b[4] = calculate_crc8(<<b[1], b[2], b[3]>>)
            /\ b[6] = codec_in.id % 256
            /\ b[7] = codec_in.id \div 256
            /\ b[8] = codec_in.seq % 256
            /\ b[9] = codec_in.seq \div 256
            /\ SubSeq(b, 10, 9 + n) = codec_in.payload

C19_Witness ==
    /\ codec_pc = "built"
    /\ codec_in.payload = <<204, 0>>
    /\ codec_in.id = 86
    /\ codec_in.seq = 258
    /\ SubSeq(codec_buf, 1, 3) = <<204, 104, 0>>
    /\ SubSeq(codec_buf, 6, 11) = <<86, 0, 2, 1, 204, 0>>

\* C20: the crc16 of all bytes but the last two is written low byte at
\* length-2 and high byte at length-1, and the crc16() accessor returns the
\* checksum that was written.
C20_Crc16WrittenAsRead ==
    codec_pc = "read" =>
        LET b == codec_buf
            n == Len(codec_buf)
            crc == calculate_crc16(SubSeq(b, 1, n - 2))
        IN  /\ b[n - 1] = crc % 256
            /\ b[n] = crc \div 256
            /\ \A o \in codec_out : o.crc16 = crc

C20_Witness ==
    /\ codec_pc = "read"
    /\ codec_in.kind = 4 /\ codec_in.id = 37 /\ codec_in.seq = 0
    /\ codec_in.payload = <<>>
    /\ codec_buf[10] = 108 /\ codec_buf[11] = 149
    /\ \E o \in codec_out : o.crc16 = 38252

\* C21: the two crc16 bytes of a gram are big-endian on the wire, the high
\* byte at size-2 and the low byte at size-1, and cover every byte but
\* themselves.
C21_Crc16BigEndianOnWire ==
    codec_pc = "built" =>
        LET n == Len(codec_buf)
            crc == calculate_crc16(SubSeq(codec_buf, 1, n - 2))
        IN  codec_buf[n - 1] = crc \div 256 /\ codec_buf[n] = crc % 256

\* C21, amended: the two crc16 bytes of a gram are little-endian on the
\* wire, the low byte at size-2 and the high byte at size-1, and cover every
\* byte but themselves.
C21_Crc16LittleEndianOnWire ==
    codec_pc = "built" =>
        LET n == Len(codec_buf)
            crc == calculate_crc16(SubSeq(codec_buf, 1, n - 2))
        IN  codec_buf[n - 1] + 256 * codec_buf[n] = crc

C21_Witness ==
    /\ codec_pc = "built"
    /\ codec_in.payload = <<255>>
    /\ LET n == Len(codec_buf)
       IN  /\ n = 12
           /\ codec_buf[n - 1] # codec_buf[n]
           /\ codec_buf[n - 1] = calculate_crc16(SubSeq(codec_buf, 1, n - 2)) % 256

\* C22: construct_package sets byte 4 to 0x40 | ((kind << 3) & 0x38), so a
\* constructed gram reads back ToDrone, type kind mod 8 and subtype 0; for
\* any discriminator byte, bit 7 gives FromDrone, else bit 6 gives ToDrone,
\* else Unknown, and type and subtype are bits 3..5 and 0..2.
C22_Discriminator ==
    /\ codec_pc = "read" =>
         /\ codec_buf[5] = 64 + 8 * (codec_in.kind % 8)
         /\ \A o \in codec_out :
              /\ o.direction = "ToDrone"
              /\ o.type = codec_in.kind % 8
              /\ o.subtype = 0
    /\ codec_pc = "discriminated" =>
         LET d == codec_in.kind
         IN  \A o \in codec_out :
               /\ o.direction = (IF d >= 128 THEN "FromDrone"
                                 ELSE IF d >= 64 THEN "ToDrone" ELSE "Unknown")
               /\ o.type = (d \div 8) % 8
               /\ o.subtype = d % 8

C22_Witness ==
    /\ codec_pc = "discriminated"
    /\ codec_in.kind = 213
    /\ codec_out = {[direction |-> "FromDrone", type |-> 2, subtype |-> 5]}

\* C29: the size field holds the total length shifted left by 3, modulo
\* 2^16, and size() returns the field shifted right by 3: up to 8191 bytes
\* size() is the length of the buffer and the low 3 bits of the field are 0;
\* from 8192 bytes on the field wraps and size() is not the length.
C29_SizeField ==
    codec_pc = "sized" =>
        LET n == Len(codec_buf)
            field == codec_buf[2] + 256 * codec_buf[3]
        IN  /\ n = GRAM_SIZE + Len(codec_in.payload)
            /\ field = (n * 8) % 65536
            /\ \A o \in codec_out :
                 /\ o.size = field \div 8
                 /\ n <= 8191 => (o.size = n /\ field % 8 = 0)
                 /\ n >= 8192 => o.size # n

C29_Witness ==
    /\ codec_pc = "sized"
    /\ Len(codec_buf) = 8192
    /\ codec_buf[2] = 0 /\ codec_buf[3] = 0
    /\ codec_out = {[size |-> 0]}

\* C23: every keepalive the session sends is the same 11 bytes,
\* construct_package(4, 0x25, 0, []), however many were sent before it:
\* is_valid accepts it, its type is 4, its id 0x25, its sequence 0 and its
\* payload empty (read from the request last sent, while the loop sleeps
\* after sending it).
C23_KeepaliveFixed ==
    /\ \A i \in 2..Len(sent) :
            /\ sent[i] = <<204, 88, 0, 124, 96, 37, 0, 0, 0, 108, 149>>
            /\ Len(sent[i]) = GRAM_SIZE
    /\ ping_pc = "sleep" =>
            LET gram == Mem(sent[Len(sent)], Len(sent[Len(sent)]))
            IN  /\ is_valid(gram, overflow_checks) = {"true"}
                /\ packet_type(gram) = 4
                /\ id(gram) = 37
                /\ sequence(gram) = 0
                /\ payload(gram) = <<>>

C23_Witness ==
    /\ Len(sent) >= 3
    /\ sent[2] = sent[3]
    /\ sequence(Mem(sent[3], GRAM_SIZE)) = 0
    /\ ping_pc = "sleep"

\* C25 (as the specification states it): every datagram that reaches the
\* dispatch by id begins with the header byte 0xCC.
C25_HeaderChecked ==
    HandlerRan => header(Received) = 204

\* C26: once the shutdown flag is cleared the keepalive loop sends at most
\* one more request, the one whose check of the flag came before the store,
\* and its next check of the flag ends the loop: no send is begun after the
\* store.
C26_AtMostOneMoreKeepalive ==
    /\ [](stopped_sent >= 0 => Len(sent) <= stopped_sent + 1)
    /\ [][~is_running =>
             /\ (ping_pc' = "send" => ping_pc = "send")
             /\ (ping_pc = "check" /\ ping_pc' # "check" => ping_pc' = "done")]_vars

C26_Witness ==
    /\ stopped_sent >= 0
    /\ Len(sent) = stopped_sent + 1
    /\ ping_pc = "done"
    /\ ~is_running

\* C24 (as the specification states it): of every datagram received on the
\* video socket the listener forwards the bytes from index 2 to the end, in
\* order, and a datagram of fewer than 2 bytes does not end the listen loop.
C24_ForwardsAfterHeader ==
    vid_received > 0 =>
        /\ Len(vid_dgram) >= 2 => vid_pushed = {SubSeq(vid_dgram, 3, Len(vid_dgram))}
        /\ Len(vid_dgram) < 2 => vid_pc # "panicked"

\* C27 (as the specification states it): once the shutdown flag is cleared,
\* as long as the process has not ended, main or one of the threads it joins
\* can take a step that needs no datagram: main is not waiting in a join, or
\* a loop is at its condition, in a sleep or in a wait that times out.
C27_ShutdownCompletes ==
    (~is_running /\ process = "running") =>
        \/ ~MainBlocked
        \/ PingLooping
        \/ CmdLooping
        \/ proc_pc \in {"check", "pull"}
        \/ vid_pc = "check"

\* C28 (as the specification states it): no send of a frame fails, and the
\* frames the player has taken followed by those still in the channel are
\* the frames sent, in the order sent.
C28_FramesDelivered ==
    /\ proc_pc # "panicked"
    /\ player_got \o chan = [i \in 1..frames_sent |-> i]

====
